---- MODULE Spec2Model ----
(***************************************************************************)
(* Model of update_reading_records.py: the cell-text normaliser            *)
(* clean_and_format_text and the sheet pass update_excel_sheet.            *)
(*                                                                         *)
(* A Python str is a sequence of one-character strings.  An optional value *)
(* (Python None or a value) is a sequence of length 0 or 1.                *)
(***************************************************************************)
EXTENDS Integers, Sequences, FiniteSets, TLC

VARIABLES
  text,             \* argument of clean_and_format_text: None or Some(str)
  result,           \* what the call returned: <<formatted_text, level>>
  result2,          \* what a second call, on the formatted text, returned
  phase,            \* "input", "called", "recalled"
  pc,               \* position of update_excel_sheet
  fileExists,       \* the input workbook is on disk
  sheetnames,       \* wb.sheetnames
  legend,           \* values of the legend cells C57.. (None or Some(str))
  value,            \* cell.value of each data cell (None or Some(str))
  value0,           \* the data cells' values as loaded
  alignment,        \* cell.alignment of each data cell
  fillOf,           \* the fill object each data cell refers to
  heap,             \* fill objects: object id -> colour
  level_color_map,  \* level string -> fill object id
  row,              \* legend loop variable
  cellIdx,          \* table loop position (row-major)
  saved,            \* wb.save has written the output file
  printed           \* messages printed so far

fnVars == << text, result, result2, phase >>
sheetVars == << pc, fileExists, sheetnames, legend, value, value0, alignment,
                fillOf, heap, level_color_map, row, cellIdx, saved, printed >>
vars == << text, result, result2, phase, pc, fileExists, sheetnames, legend,
           value, value0, alignment, fillOf, heap, level_color_map, row,
           cellIdx, saved, printed >>

None == << >>
Some(x) == << x >>

Min(S) == CHOOSE x \in S : \A y \in S : x <= y
Max(S) == CHOOSE x \in S : \A y \in S : x >= y

(* ------------------------- bounds of the model ------------------------- *)
MaxLen == 5
MaxCells == 2
MaxLegend == 2

(* ----------------------- characters and str methods -------------------- *)
LowerLetters == << "a","b","c","d","e","f","g","h","i","j","k","l","m",
                   "n","o","p","q","r","s","t","u","v","w","x","y","z" >>
UpperLetters == << "A","B","C","D","E","F","G","H","I","J","K","L","M",
                   "N","O","P","Q","R","S","T","U","V","W","X","Y","Z" >>

IndexIn(c, seq) ==
  IF \E i \in 1..Len(seq) : seq[i] = c
  THEN CHOOSE i \in 1..Len(seq) : seq[i] = c
  ELSE 0

upper(c) == LET i == IndexIn(c, LowerLetters) IN IF i = 0 THEN c ELSE UpperLetters[i]
lower(c) == LET i == IndexIn(c, UpperLetters) IN IF i = 0 THEN c ELSE LowerLetters[i]

isspace(c) == c \in {" ", "\n", "\t", "\r"}
isdigit(c) == c \in {"0","1","2","3","4","5","6","7","8","9"}

strip(s) ==
  LET keep == {i \in 1..Len(s) : ~isspace(s[i])}
  IN IF keep = {} THEN << >> ELSE SubSeq(s, Min(keep), Max(keep))

RECURSIVE split(_)
split(s) ==
  LET keep == {i \in 1..Len(s) : ~isspace(s[i])}
  IN IF keep = {} THEN << >>
     ELSE LET a == Min(keep)
              stops == {i \in a..Len(s) : isspace(s[i])}
              b == IF stops = {} THEN Len(s) + 1 ELSE Min(stops)
          IN << SubSeq(s, a, b - 1) >> \o split(SubSeq(s, b, Len(s)))

(* faulty variant of capitalize: str.title(), a capital after every non-letter *)
isalpha(c) == IndexIn(c, LowerLetters) # 0 \/ IndexIn(c, UpperLetters) # 0

titlecase(w) ==
  [i \in 1..Len(w) |->
     IF i = 1 \/ ~isalpha(w[i - 1]) THEN upper(w[i]) ELSE lower(w[i])]

capitalize(w) ==
  [i \in 1..Len(w) |-> IF i = 1 THEN upper(w[i]) ELSE lower(w[i])]

RECURSIVE join(_, _)
join(sep, words) ==
  IF words = << >> THEN << >>
  ELSE IF Len(words) = 1 THEN words[1]
  ELSE words[1] \o sep \o join(sep, Tail(words))

capwords(s) ==
  LET ws == split(s)
  IN join(<< " " >>, [i \in 1..Len(ws) |-> capitalize(ws[i])])

(* ------------------------------ the regexes ---------------------------- *)
(* Offsets are Python's: a match covers val[start:end], group 1 covers     *)
(* val[g1start:g1end]; the character at offset p is val[p + 1].            *)
NoMatch == [start |-> -1, end |-> -1, g1start |-> -1, g1end |-> -1]

CharAt(val, p) == val[p + 1]

(* '$' without re.MULTILINE: end of string, or just before a final newline *)
AtDollar(val, p) ==
  \/ p = Len(val)
  \/ p = Len(val) - 1 /\ CharAt(val, p) = "\n"

(* (?=\s|$|\n) *)
LookaheadWs(val, p) ==
  \/ p < Len(val) /\ isspace(CharAt(val, p))
  \/ AtDollar(val, p)
  \/ p < Len(val) /\ CharAt(val, p) = "\n"

AllDigits(val, p, d) ==
  /\ p + d <= Len(val)
  /\ \A q \in p..(p + d - 1) : isdigit(CharAt(val, q))

HasPlus(val, p) == p < Len(val) /\ CharAt(val, p) = "+"

(* faulty variant of MatchWsLevelAt: ' +' in place of [\s\n]+ *)
MatchSpaceLevelAt(val, pos) ==
  LET tries == {t \in [k : 1..Len(val), d : 1..2, p : 0..1] :
                  /\ pos + t.k <= Len(val)
                  /\ \A q \in pos..(pos + t.k - 1) : CharAt(val, q) = " "
                  /\ AllDigits(val, pos + t.k, t.d)
                  /\ (t.p = 1 => HasPlus(val, pos + t.k + t.d))
                  /\ LookaheadWs(val, pos + t.k + t.d + t.p)}
      rank(t) == 6 * t.k + 2 * t.d + t.p
  IN IF tries = {} THEN NoMatch
     ELSE LET t == CHOOSE x \in tries : \A y \in tries : rank(x) >= rank(y)
          IN [start |-> pos, end |-> pos + t.k + t.d + t.p,
              g1start |-> pos + t.k, g1end |-> pos + t.k + t.d + t.p]

(* [\s\n]+(\d{1,2}\+?)(?=\s|$|\n) tried at offset pos.  Greedy with        *)
(* backtracking: the longest whitespace run first, then two digits before  *)
(* one, then with '+' before without.                                      *)
MatchWsLevelAt(val, pos) ==
  LET tries == {t \in [k : 1..Len(val), d : 1..2, p : 0..1] :
                  /\ pos + t.k <= Len(val)
                  /\ \A q \in pos..(pos + t.k - 1) : isspace(CharAt(val, q))
                  /\ AllDigits(val, pos + t.k, t.d)
                  /\ (t.p = 1 => HasPlus(val, pos + t.k + t.d))
                  /\ LookaheadWs(val, pos + t.k + t.d + t.p)}
      rank(t) == 6 * t.k + 2 * t.d + t.p
  IN IF tries = {} THEN NoMatch
     ELSE LET t == CHOOSE x \in tries : \A y \in tries : rank(x) >= rank(y)
          IN [start |-> pos, end |-> pos + t.k + t.d + t.p,
              g1start |-> pos + t.k, g1end |-> pos + t.k + t.d + t.p]

(* (\d{1,2}\+?)$ tried at offset pos *)
MatchEndLevelAt(val, pos) ==
  LET tries == {t \in [d : 1..2, p : 0..1] :
                  /\ AllDigits(val, pos, t.d)
                  /\ (t.p = 1 => HasPlus(val, pos + t.d))
                  /\ AtDollar(val, pos + t.d + t.p)}
      rank(t) == 2 * t.d + t.p
  IN IF tries = {} THEN NoMatch
     ELSE LET t == CHOOSE x \in tries : \A y \in tries : rank(x) >= rank(y)
          IN [start |-> pos, end |-> pos + t.d + t.p,
              g1start |-> pos, g1end |-> pos + t.d + t.p]

(* re.finditer: leftmost match from pos, then resume at its end *)
RECURSIVE FinditerWsLevel(_, _)
FinditerWsLevel(val, pos) ==
  IF pos >= Len(val) THEN << >>
  ELSE LET m == MatchWsLevelAt(val, pos)
       IN IF m = NoMatch THEN FinditerWsLevel(val, pos + 1)
          ELSE << m >> \o FinditerWsLevel(val, m.end)

RECURSIVE FinditerEndLevel(_, _)
FinditerEndLevel(val, pos) ==
  IF pos >= Len(val) THEN << >>
  ELSE LET m == MatchEndLevelAt(val, pos)
       IN IF m = NoMatch THEN FinditerEndLevel(val, pos + 1)
          ELSE << m >> \o FinditerEndLevel(val, m.end)

(* faulty variant of FindMatches: the end-anchored search has priority *)
FindMatchesEndFirst(val) ==
  LET matches == FinditerEndLevel(val, 0)
  IN IF matches = << >> THEN FinditerWsLevel(val, 0) ELSE matches

(* lines 27-31: the whitespace-delimited search, else the fallback *)
FindMatches(val) ==
  LET matches == FinditerWsLevel(val, 0)
  IN IF matches = << >> THEN FinditerEndLevel(val, 0) ELSE matches

(* faulty variant of LastMatch: matches[0] *)
FirstMatch(matches) == matches[1]

(* line 35: m = matches[-1] *)
LastMatch(matches) == matches[Len(matches)]

(* faulty variant of FormatNewVal: the suffix line is appended unconditionally *)
FormatNewValAlwaysSuffix(name_part, level_str, suffix_part) ==
  name_part \o << "\n" >> \o level_str \o << "\n" >> \o suffix_part

(* lines 50-54 *)
FormatNewVal(name_part, level_str, suffix_part) ==
  LET new_val == name_part \o << "\n" >> \o level_str
  IN IF suffix_part # << >>
     THEN new_val \o << "\n" >> \o suffix_part
     ELSE new_val

(* faulty variant of NoLevelResult: the passthrough is title-cased *)
NoLevelResultTitled(val) == << Some(capwords(val)), None >>

(* line 58 *)
NoLevelResult(val) == << Some(val), None >>

(* lines 7-58; txt is None or Some(str) *)
clean_and_format_text(txt) ==
  IF txt = None \/ txt = Some(<< >>) THEN << None, None >>
  ELSE
    LET val == strip(txt[1])
        matches == FindMatches(val)
    IN IF matches # << >>
       THEN LET m == LastMatch(matches)
                level_str == SubSeq(val, m.g1start + 1, m.g1end)
                name_part == capwords(strip(SubSeq(val, 1, m.start)))
                suffix_part == strip(SubSeq(val, m.end + 1, Len(val)))
            IN << Some(FormatNewVal(name_part, level_str, suffix_part)),
                  Some(level_str) >>
       ELSE NoLevelResult(val)

(* ------------------------------ strings -------------------------------- *)
Alphabet == {"a", "B", "1", "+", " ", "\n"}
Strings(n) == UNION {[1..k -> Alphabet] : k \in 0..n}

ExLevel3 == << "L","e","v","e","l"," ","3"," ","r","e","a","d","e","r","s"," ","1","2","+" >>
ExLondon == << "a"," ","d","a","y"," ","i","n"," ","l","o","n","d","o","n"," ","8" >>
ExReadWithMe == << "s","o","m","e"," ","b","o","o","k"," ","(","r","e","a","d"," ",
                   "w","i","t","h"," ","m","e",")"," ","5" >>
ExCharlotte == << "C","h","a","r","l","o","t","t","e","'","s"," ","W","e","b" >>
ExVol12 == << "b","o","o","k"," ","3"," ","v","o","l","1","2" >>
ExBook8 == << "b","o","o","k","8" >>
Examples == {ExLevel3, ExLondon, ExReadWithMe, ExCharlotte, ExVol12, ExBook8}

(* --------------- specification of the pure function -------------------- *)
SheetIdle ==
  /\ pc = "idle"
  /\ fileExists = FALSE
  /\ sheetnames = {}
  /\ legend = << >>
  /\ value = << >>
  /\ value0 = << >>
  /\ alignment = << >>
  /\ fillOf = << >>
  /\ heap = << >>
  /\ level_color_map = << >>
  /\ row = 0
  /\ cellIdx = 0
  /\ saved = FALSE
  /\ printed = << >>

FnInit ==
  /\ text \in {None} \cup {Some(s) : s \in Strings(MaxLen) \cup Examples}
  /\ result = << None, None >>
  /\ result2 = << None, None >>
  /\ phase = "input"
  /\ SheetIdle

(* a call of clean_and_format_text on the input *)
Call ==
  /\ phase = "input"
  /\ result' = clean_and_format_text(text)
  /\ phase' = "called"
  /\ UNCHANGED << text, result2 >>
  /\ UNCHANGED sheetVars

(* a call of clean_and_format_text on its own formatted output *)
CallAgain ==
  /\ phase = "called"
  /\ result2' = clean_and_format_text(result[1])
  /\ phase' = "recalled"
  /\ UNCHANGED << text, result >>
  /\ UNCHANGED sheetVars

FnNext == Call \/ CallAgain
FnSpec == FnInit /\ [][FnNext]_vars

(* --------------------------- the sheet pass ---------------------------- *)
(* The data region (rows 2-56, columns F..max_column) is DataCells in      *)
(* row-major order; the legend C57:C77 is LegendRows.                      *)
DataCells == 1..MaxCells
LegendRows == 1..MaxLegend

sheet_name == "2B Liben 2.0"

St(s) == Some(s)
CellTexts ==
  { None,
    St(<< "a", " ", "8" >>),
    St(<< "w", "e", "b" >>),
    St(<< "1" >>),
    St(<< "b", " ", "1", "+", " ", "(", "x", ")" >>) }
LegendTexts ==
  { None,
    St(<< "8" >>),
    St(<< "1", "+", " " >>) }

(* fill objects: the legend cell of row r owns object r, data cell c owns  *)
(* object MaxLegend + c; the colour of an object is a number               *)
LegendFill(r) == r
LegendColour(r) == r
NoFillColour == 0
InitialHeap ==
  [o \in 1..(MaxLegend + MaxCells) |->
     IF o <= MaxLegend THEN LegendColour(o) ELSE NoFillColour]

DefaultAlignment == "general"
CentredWrapped == "wrap_text,vertical=center,horizontal=center"

MsgLoading == "Loading"
MsgFileNotFound == "Error: File not found"
MsgSheetNotFound == "Error: Sheet not found"
MsgDone == "Done! Saved updated file"

SheetInit ==
  /\ pc = "load"
  /\ fileExists \in BOOLEAN
  /\ sheetnames \in {{sheet_name, "Sheet1"}, {"Sheet1"}}
  /\ legend \in [LegendRows -> LegendTexts]
  /\ value \in [DataCells -> CellTexts]
  /\ value0 = value
  /\ alignment = [c \in DataCells |-> DefaultAlignment]
  /\ fillOf = [c \in DataCells |-> MaxLegend + c]
  /\ heap = InitialHeap
  /\ level_color_map = << >>
  /\ row = 1
  /\ cellIdx = 1
  /\ saved = FALSE
  /\ printed = << >>
  /\ text = None
  /\ result = << None, None >>
  /\ result2 = << None, None >>
  /\ phase = "idle"

(* lines 61-63: the workbook loads *)
LoadWorkbook ==
  /\ pc = "load"
  /\ fileExists
  /\ printed' = Append(printed, MsgLoading)
  /\ pc' = "sheet"
  /\ UNCHANGED << fileExists, sheetnames, legend, value, value0, alignment,
                  fillOf, heap, level_color_map, row, cellIdx, saved >>
  /\ UNCHANGED fnVars

(* lines 64-66: FileNotFoundError *)
FileNotFound ==
  /\ pc = "load"
  /\ ~fileExists
  /\ printed' = printed \o << MsgLoading, MsgFileNotFound >>
  /\ pc' = "returned"
  /\ UNCHANGED << fileExists, sheetnames, legend, value, value0, alignment,
                  fillOf, heap, level_color_map, row, cellIdx, saved >>
  /\ UNCHANGED fnVars

(* faulty variant of SheetMissing: the sheet check is left out *)
SheetNeverMissing(names) == FALSE

(* line 69 *)
SheetMissing(names) == sheet_name \notin names

(* lines 68-73 *)
SelectSheet ==
  /\ pc = "sheet"
  /\ IF SheetMissing(sheetnames)
     THEN /\ printed' = Append(printed, MsgSheetNotFound)
          /\ pc' = "returned"
     ELSE /\ printed' = printed
          /\ pc' = "legend"
  /\ UNCHANGED << fileExists, sheetnames, legend, value, value0, alignment,
                  fillOf, heap, level_color_map, row, cellIdx, saved >>
  /\ UNCHANGED fnVars

(* faulty variant of LegendKey: the key is normalised by dropping '+' *)
LegendKeyDigits(v) ==
  IF v = None THEN None
  ELSE Some(SelectSeq(strip(v[1]), LAMBDA ch : ch # "+"))

(* line 83: str(cell.value).strip() if cell.value is not None else None *)
LegendKey(v) == IF v = None THEN None ELSE Some(strip(v[1]))

(* line 88: level_color_map[level_val] = cell.fill *)
MapPut(m, k, o) == [x \in DOMAIN m \cup {k} |-> IF x = k THEN o ELSE m[x]]

(* lines 80-88: one iteration of the legend loop *)
ReadLegendRow ==
  /\ pc = "legend"
  /\ row <= MaxLegend
  /\ LET level_val == LegendKey(legend[row])
     IN level_color_map' =
          IF level_val # None /\ level_val # Some(<< >>)
          THEN MapPut(level_color_map, level_val[1], LegendFill(row))
          ELSE level_color_map
  /\ row' = row + 1
  /\ pc' = IF row = MaxLegend THEN "table" ELSE "legend"
  /\ UNCHANGED << fileExists, sheetnames, legend, value, value0, alignment,
                  fillOf, heap, cellIdx, saved, printed >>
  /\ UNCHANGED fnVars

(* faulty variant of CopyFill: the legend's fill object itself is assigned *)
AliasFill(h, o) == [ref |-> o, heap |-> h]

(* copy(fill): a new object with the same colour *)
CopyFill(h, o) ==
  LET n == Len(h) + 1
  IN [ref |-> n, heap |-> [x \in 1..n |-> IF x = n THEN h[o] ELSE h[x]]]

(* line 114 *)
LevelInMap(extracted_level, m) ==
  /\ extracted_level # None
  /\ extracted_level # Some(<< >>)
  /\ extracted_level[1] \in DOMAIN m

(* lines 103-116: one cell of the table loop *)
ProcessCell ==
  /\ pc = "table"
  /\ cellIdx <= MaxCells
  /\ IF value[cellIdx] # None /\ value[cellIdx] # Some(<< >>)
     THEN LET r == clean_and_format_text(value[cellIdx])
              new_text == r[1]
              extracted_level == r[2]
          IN /\ value' = [value EXCEPT ![cellIdx] = new_text]
             /\ alignment' = [alignment EXCEPT ![cellIdx] = CentredWrapped]
             /\ IF LevelInMap(extracted_level, level_color_map)
                THEN LET c == CopyFill(heap, level_color_map[extracted_level[1]])
                     IN /\ fillOf' = [fillOf EXCEPT ![cellIdx] = c.ref]
                        /\ heap' = c.heap
                ELSE UNCHANGED << fillOf, heap >>
     ELSE UNCHANGED << value, alignment, fillOf, heap >>
  /\ cellIdx' = cellIdx + 1
  /\ pc' = IF cellIdx = MaxCells THEN "save" ELSE "table"
  /\ UNCHANGED << fileExists, sheetnames, legend, value0, level_color_map,
                  row, saved, printed >>
  /\ UNCHANGED fnVars

(* lines 119-121 *)
Save ==
  /\ pc = "save"
  /\ saved' = TRUE
  /\ printed' = Append(printed, MsgDone)
  /\ pc' = "returned"
  /\ UNCHANGED << fileExists, sheetnames, legend, value, value0, alignment,
                  fillOf, heap, level_color_map, row, cellIdx >>
  /\ UNCHANGED fnVars

Init == SheetInit
Next ==
  \/ LoadWorkbook
  \/ FileNotFound
  \/ SelectSheet
  \/ ReadLegendRow
  \/ ProcessCell
  \/ Save
Spec == Init /\ [][Next]_vars

(* ======================= properties of the parser ====================== *)
(* The level tokens of a string, stated on the string itself rather than   *)
(* through the regex engine.                                               *)
WordStarts(s) ==
  {i \in 1..Len(s) : ~isspace(s[i]) /\ (i = 1 \/ isspace(s[i - 1]))}
WordEnd(s, i) ==
  Max({j \in i..Len(s) : \A q \in i..j : ~isspace(s[q])})
WordAt(s, i) == SubSeq(s, i, WordEnd(s, i))

(* one or two digits and an optional '+' *)
IsLevelText(w) ==
  \E d \in 1..2 :
    /\ Len(w) \in {d, d + 1}
    /\ \A q \in 1..d : isdigit(w[q])
    /\ (Len(w) = d + 1 => w[d + 1] = "+")

(* whitespace-delimited level tokens: level words with whitespace before *)
TokenStarts(s) == {i \in WordStarts(s) : i > 1 /\ IsLevelText(WordAt(s, i))}
(* level texts glued to the end of the string *)
EndStarts(s) == {i \in 1..Len(s) : IsLevelText(SubSeq(s, i, Len(s)))}

HasLevel(s) == TokenStarts(s) # {} \/ EndStarts(s) # {}
(* first and last position of the level the parser is to pick *)
LevelFrom(s) ==
  IF TokenStarts(s) # {} THEN Max(TokenStarts(s)) ELSE Min(EndStarts(s))
LevelTo(s) ==
  IF TokenStarts(s) # {} THEN WordEnd(s, Max(TokenStarts(s))) ELSE Len(s)

FirstLine(t) ==
  LET nl == {i \in 1..Len(t) : t[i] = "\n"}
  IN IF nl = {} THEN t ELSE SubSeq(t, 1, Min(nl) - 1)

RECURSIVE Lines(_)
Lines(t) ==
  LET nl == {i \in 1..Len(t) : t[i] = "\n"}
  IN IF nl = {} THEN << t >>
     ELSE << SubSeq(t, 1, Min(nl) - 1) >> \o Lines(SubSeq(t, Min(nl) + 1, Len(t)))

Truthy(v) == v # None /\ v # Some(<< >>)

OutLevel3 == << "L","e","v","e","l"," ","3"," ","R","e","a","d","e","r","s","\n","1","2","+" >>
OutLondon == << "A"," ","D","a","y"," ","I","n"," ","L","o","n","d","o","n","\n","8" >>
OutReadWithMeClaimed ==
  << "S","o","m","e"," ","B","o","o","k","\n","5","\n",
     "(","R","e","a","d"," ","W","i","t","h"," ","M","e",")" >>
OutReadWithMe ==
  << "S","o","m","e"," ","B","o","o","k"," ","(","r","e","a","d"," ",
     "W","i","t","h"," ","M","e",")","\n","5" >>
OutVol12 == << "B","o","o","k","\n","3","\n","v","o","l","1","2" >>
OutBook8 == << "B","o","o","k","\n","8" >>

(* C1: when the input holds two or more whitespace-delimited level tokens, *)
(* the returned level is the rightmost of them and every earlier token is  *)
(* a word of the name line; "Level 3 readers 12+" gives                    *)
(* ("Level 3 Readers\n12+", "12+").                                        *)
C1_RightmostToken ==
  /\ (phase = "called" /\ Truthy(text) /\ Cardinality(TokenStarts(text[1])) >= 2) =>
       LET s == text[1]
           last == Max(TokenStarts(s))
           ws == split(SubSeq(s, 1, last - 1))
           nw == split(FirstLine(result[1][1]))
       IN /\ result[2] = Some(WordAt(s, last))
          /\ Len(nw) = Len(ws)
          /\ \A j \in 1..Len(ws) : IsLevelText(ws[j]) => nw[j] = ws[j]
          /\ FirstLine(result[1][1]) = capwords(SubSeq(s, 1, last - 1))
  /\ (phase = "called" /\ text = Some(ExLevel3)) =>
       result = << Some(OutLevel3), Some(<< "1", "2", "+" >>) >>

C1_Witness ==
  /\ phase = "called"
  /\ text = Some(ExLevel3)
  /\ Cardinality(TokenStarts(text[1])) = 2
  /\ result[2] = Some(<< "1", "2", "+" >>)

(* C2: when a level is found, the text is title-case(trim(before)), a      *)
(* newline and the level, followed by a newline and trim(after) exactly    *)
(* when that remainder is non-empty, and the second component is the       *)
(* level; "a day in london 8" gives ("A Day In London\n8", "8").           *)
C2_Composition ==
  /\ (phase = "called" /\ Truthy(text) /\ result[2] # None) =>
       LET val == strip(text[1])
           level == SubSeq(val, LevelFrom(val), LevelTo(val))
           before == strip(SubSeq(val, 1, LevelFrom(val) - 1))
           after == strip(SubSeq(val, LevelTo(val) + 1, Len(val)))
       IN /\ HasLevel(val)
          /\ result[2] = Some(level)
          /\ result[1] = Some(capwords(before) \o << "\n" >> \o level \o
                              (IF after # << >> THEN << "\n" >> \o after ELSE << >>))
  /\ (phase = "called" /\ text = Some(ExLondon)) =>
       result = << Some(OutLondon), Some(<< "8" >>) >>

C2_Witness ==
  /\ phase = "called"
  /\ text = Some(ExLondon)
  /\ result[2] = Some(<< "8" >>)

(* C3 as stated: "some book (read with me) 5" gives                        *)
(* ("Some Book\n5\n(Read With Me)", "5"), the note on a third line.        *)
C3_Original ==
  (phase = "called" /\ text = Some(ExReadWithMe)) =>
    result = << Some(OutReadWithMeClaimed), Some(<< "5" >>) >>

(* C3 amended: "some book (read with me) 5" gives                          *)
(* ("Some Book (read With Me)\n5", "5"): the note precedes the level, so  *)
(* it stays on the name line, and there is no third line.                  *)
C3_NoteStaysInName ==
  (phase = "called" /\ text = Some(ExReadWithMe)) =>
    /\ result = << Some(OutReadWithMe), Some(<< "5" >>) >>
    /\ Len(Lines(result[1][1])) = 2

C3_Witness ==
  /\ phase = "called"
  /\ text = Some(ExReadWithMe)
  /\ result[2] = Some(<< "5" >>)

(* C8: a second call on the formatted text of a call that found a level    *)
(* returns that same text and that same level.                             *)
C8_FixedPoint ==
  (phase = "recalled" /\ result[2] # None) => result2 = result

C8_Witness ==
  /\ phase = "recalled"
  /\ result[2] # None
  /\ result[1] # text
  /\ Len(Lines(result[1][1])) = 3
  /\ result2 = result

(* C9: a non-empty input in which neither pattern matches comes back       *)
(* trimmed and otherwise unchanged, with no level; "Charlotte's Web" gives *)
(* ("Charlotte's Web", none).                                              *)
C9_Passthrough ==
  /\ (phase = "called" /\ Truthy(text) /\ ~HasLevel(strip(text[1]))) =>
       LET s == text[1]
           keep == {i \in 1..Len(s) : ~isspace(s[i])}
           trimmed == IF keep = {} THEN << >> ELSE SubSeq(s, Min(keep), Max(keep))
       IN result = << Some(trimmed), None >>
  /\ (phase = "called" /\ text = Some(ExCharlotte)) =>
       result = << Some(ExCharlotte), None >>

C9_Witness ==
  /\ phase = "called"
  /\ text = Some(<< " ", "a", "B", " ", "a" >>)
  /\ result = << Some(<< "a", "B", " ", "a" >>), None >>

(* C10: the end-anchored fallback decides the level only when there is no  *)
(* whitespace-delimited token; with a token the level is the rightmost     *)
(* token even if digits are glued to the end ("book 3 vol12" gives "3"),   *)
(* without one it is the longest level text ending the string and the      *)
(* suffix is empty ("book8" gives ("Book\n8", "8")).                       *)
C10_FallbackOnlyWithoutToken ==
  /\ (phase = "called" /\ Truthy(text)) =>
       LET val == strip(text[1])
       IN IF TokenStarts(val) # {}
          THEN result[2] = Some(WordAt(val, Max(TokenStarts(val))))
          ELSE IF EndStarts(val) # {}
          THEN LET a == Min(EndStarts(val))
               IN /\ result[2] = Some(SubSeq(val, a, Len(val)))
                  /\ result[1] = Some(capwords(SubSeq(val, 1, a - 1)) \o << "\n" >>
                                      \o SubSeq(val, a, Len(val)))
          ELSE result[2] = None
  /\ (phase = "called" /\ text = Some(ExVol12)) =>
       result = << Some(OutVol12), Some(<< "3" >>) >>
  /\ (phase = "called" /\ text = Some(ExBook8)) =>
       result = << Some(OutBook8), Some(<< "8" >>) >>

C10_Witness ==
  /\ phase = "called"
  /\ text = Some(ExVol12)
  /\ EndStarts(text[1]) # {}
  /\ result[2] = Some(<< "3" >>)

(* ===================== properties of the sheet pass ==================== *)
Processed(c) == pc \in {"save", "returned"} \/ (pc = "table" /\ c < cellIdx)
TableDone == pc = "save" \/ (pc = "returned" /\ saved)

(* C4 as stated: after the pass every data cell that was non-empty holds a *)
(* non-empty title-cased name line, then at most a level line, then at     *)
(* most one suffix line, whatever the cell held.                           *)
C4_Original ==
  TableDone =>
    \A c \in DataCells :
      Truthy(value0[c]) =>
        /\ value[c] # None
        /\ LET ls == Lines(value[c][1])
           IN /\ Len(ls) \in 1..3
              /\ ls[1] # << >>
              /\ ls[1] = capwords(ls[1])
              /\ (Len(ls) >= 2 => IsLevelText(ls[2]))

(* C4 amended: after the pass a data cell that was non-empty holds its     *)
(* trimmed text unchanged when it has no level, and otherwise a name line  *)
(* in capwords form (empty for a level-only cell), then the level line,    *)
(* then, if there is text after the level, that text trimmed.              *)
C4_CellShape ==
  TableDone =>
    \A c \in DataCells :
      Truthy(value0[c]) =>
        LET val == strip(value0[c][1])
        IN IF ~HasLevel(val)
           THEN value[c] = Some(val)
           ELSE /\ value[c] # None
                /\ LET t == value[c][1]
                       ls == Lines(t)
                       head == ls[1] \o << "\n" >> \o ls[2]
                       rest == SubSeq(t, Len(head) + 2, Len(t))
                   IN /\ Len(ls) >= 2
                      /\ ls[1] = capwords(ls[1])
                      /\ IsLevelText(ls[2])
                      /\ (Len(ls) >= 3 => rest # << >> /\ rest = strip(rest))
                      /\ (Len(ls) >= 3 =>
                            rest = strip(SubSeq(val, LevelTo(val) + 1, Len(val))))

C4_Witness ==
  /\ pc = "returned"
  /\ saved
  /\ value0[1] = St(<< "1" >>)
  /\ value[1] = St(<< "\n", "1" >>)
  /\ value0[2] = St(<< "w", "e", "b" >>)
  /\ value[2] = value0[2]

(* the keys the legend defines: its non-empty trimmed cell values *)
LegendKeys ==
  {strip(legend[r][1]) : r \in {x \in LegendRows : legend[x] # None}} \ {<< >>}

(* C5: a data cell's fill changes only if the level extracted from the     *)
(* cell equals a legend key; every other cell keeps its fill object and    *)
(* that object its colour.                                                 *)
C5_FillOnlyOnLegendLevel ==
  \A c \in DataCells :
    LET level == clean_and_format_text(value0[c])[2]
        isKey == Truthy(value0[c]) /\ level # None /\ level[1] \in LegendKeys
    IN /\ (fillOf[c] # MaxLegend + c => Processed(c) /\ isKey)
       /\ (~isKey => fillOf[c] = MaxLegend + c /\ heap[fillOf[c]] = NoFillColour)

C5_Witness ==
  /\ pc = "returned"
  /\ saved
  /\ value0[1] = St(<< "1" >>)
  /\ St(<< "1", "+", " " >>) \in {legend[r] : r \in LegendRows}
  /\ fillOf[1] = MaxLegend + 1
  /\ \E c \in DataCells : fillOf[c] # MaxLegend + c

(* C6: a coloured data cell has the legend entry's colour in a fill object *)
(* of its own; no data cell refers to a legend cell's fill object, every   *)
(* legend fill keeps its colour, also if a data cell's fill object is      *)
(* changed afterwards.                                                     *)
C6_CopyNotAlias ==
  /\ \A c \in DataCells : \A r \in LegendRows : fillOf[c] # LegendFill(r)
  /\ \A r \in LegendRows : heap[LegendFill(r)] = LegendColour(r)
  /\ \A c \in DataCells : \A k \in 0..(MaxLegend + 1) :
       LET h2 == [heap EXCEPT ![fillOf[c]] = k]
       IN \A r \in LegendRows : h2[LegendFill(r)] = LegendColour(r)
  /\ \A c \in DataCells :
       fillOf[c] # MaxLegend + c =>
         LET level == clean_and_format_text(value0[c])[2]
         IN /\ level # None
            /\ level[1] \in DOMAIN level_color_map
            /\ heap[fillOf[c]] = heap[level_color_map[level[1]]]

C6_Witness ==
  /\ pc = "returned"
  /\ saved
  /\ \E c \in DataCells : fillOf[c] # MaxLegend + c /\ heap[fillOf[c]] # NoFillColour

Untouched ==
  /\ value = value0
  /\ alignment = [c \in DataCells |-> DefaultAlignment]
  /\ fillOf = [c \in DataCells |-> MaxLegend + c]
  /\ heap = InitialHeap

(* C7: with the input file absent, or the sheet "2B Liben 2.0" absent, the *)
(* run prints a diagnostic and returns; nothing is saved and no cell is    *)
(* modified; a save happens only when both checks passed.                  *)
C7_ErrorPathsWriteNothing ==
  /\ (~fileExists \/ sheet_name \notin sheetnames) =>
       /\ ~saved
       /\ Untouched
       /\ pc \in {"load", "sheet", "returned"}
       /\ (pc = "returned" =>
             printed[Len(printed)] =
               IF ~fileExists THEN MsgFileNotFound ELSE MsgSheetNotFound)
  /\ saved => fileExists /\ sheet_name \in sheetnames

C7_Witness ==
  /\ pc = "returned"
  /\ fileExists
  /\ sheet_name \notin sheetnames
  /\ ~saved
  /\ \E c \in DataCells : Truthy(value0[c])
  /\ printed = << MsgLoading, MsgSheetNotFound >>

====
